---- MODULE Spec2Model ----
(***************************************************************************)
(* The two single-page tools of 4d-intuition-lab as one state machine:     *)
(*   - the Hopf fibration page        (src/unnamed/part_000)               *)
(*   - the stereographic projection   (src/stereographic/main.js)          *)
(* A browser shows one page at a time: `page` is fixed by Init and every   *)
(* handler is guarded by it.  Lengths are fixed-point integers, one world  *)
(* unit = Scale.  Colours are the integer values of the hex literals.      *)
(***************************************************************************)
EXTENDS Integers, Sequences, FiniteSets

VARIABLES
  page,             \* which page is loaded: "hopf" or "stereographic"
  event,            \* the DOM event whose listener ran last (its inputs)
  call,             \* a function of the page run on its own: its input and progress
  \* ---- Hopf page (src/unnamed/part_000)
  toggleList,       \* .checked of pointToggle / longitudeToggle / latitudeToggle
  selectionMode, longitudeMode, latitudeMode, holdScene,
  fiberIndex,
  markersGroup, fibersGroup, torusGroup, sphereLinesGroup,
  freezeBtnText,    \* freezeBtn.textContent
  hopfPanels,       \* style.visibility of uiPanel, infoPanel, titleContainer
  hopfFlash,        \* flash.style.opacity
  hopfTimers,       \* pending setTimeout callbacks of the capture handler
  hopfFrame,        \* visibility of the panels in the last frame toDataURL exported
  drawn,            \* history: colour of every createHopfFiber call since the last Reset
  clicks,           \* history: clicks that passed the listener's early returns since the last Reset
  \* ---- stereographic page (src/stereographic/main.js)
  toggles,          \* .checked of togglePoint / toggleLongitude / toggleLatitude
  isFrozen,
  projectGroup,
  warning,          \* warning.style.display
  stereoFreezeText, \* freezeBtn.textContent
  stereoPanels, stereoFlash, stereoTimers,
  stereoFrame       \* visibility of the panels in the last frame toDataURL exported

hopfVars == <<toggleList, selectionMode, longitudeMode, latitudeMode, holdScene,
              fiberIndex, markersGroup, fibersGroup, torusGroup, sphereLinesGroup,
              freezeBtnText, hopfPanels, hopfFlash, hopfTimers, hopfFrame, drawn, clicks>>
stereoVars == <<toggles, isFrozen, projectGroup, warning, stereoFreezeText,
                stereoPanels, stereoFlash, stereoTimers, stereoFrame>>
vars == <<page, event, call, hopfVars, stereoVars>>

(***************************************************************************)
(* Bounds of the model.                                                    *)
(***************************************************************************)
\* fiberIndex and the Point-mode groups grow without limit: at most this many clicks
\* are drawn between two Resets
MaxClicks == 3
\* pending capture-restore timers
MaxTimers == 2

(***************************************************************************)
(* Fixed-point arithmetic.                                                 *)
(***************************************************************************)
\* one world unit (sphere radius 1 = 10000)
Scale == 10000

\* the value a non-finite double (Infinity, NaN) is encoded as
NonFinite == 2^30

\* a / b rounded to the nearest integer (b # 0)
RoundDiv(a, b) ==
  LET n == IF b < 0 THEN -a ELSE a
      d == IF b < 0 THEN -b ELSE b
  IN  (2 * n + d) \div (2 * d)

\* Math.sqrt on fixed point: the integer r with r^2 <= a < (r+1)^2
RECURSIVE SqrtSearch(_, _, _)
SqrtSearch(a, lo, hi) ==
  IF lo = hi THEN lo
  ELSE LET mid == (lo + hi + 1) \div 2
       IN  IF mid * mid <= a THEN SqrtSearch(a, mid, hi) ELSE SqrtSearch(a, lo, mid - 1)
ISqrt(a) == SqrtSearch(a, 0, 3 * Scale)

Vec(x, y, z) == [x |-> x, y |-> y, z |-> z]

\* THREE.Vector3.distanceTo, squared
DistSq(p, q) ==
  (p.x - q.x) * (p.x - q.x) + (p.y - q.y) * (p.y - q.y) + (p.z - q.z) * (p.z - q.z)

\* Scale * sin(2 pi i / 128), i = 0..128 at index i + 1
SinTab128 ==
  <<0, 491, 980, 1467, 1951, 2430, 2903, 3369, 3827, 4276, 4714, 5141,
     5556, 5957, 6344, 6716, 7071, 7410, 7730, 8032, 8315, 8577, 8819,
     9040, 9239, 9415, 9569, 9700, 9808, 9892, 9952, 9988, 10000, 9988,
     9952, 9892, 9808, 9700, 9569, 9415, 9239, 9040, 8819, 8577, 8315,
     8032, 7730, 7410, 7071, 6716, 6344, 5957, 5556, 5141, 4714, 4276,
     3827, 3369, 2903, 2430, 1951, 1467, 980, 491, 0, -491, -980, -1467,
     -1951, -2430, -2903, -3369, -3827, -4276, -4714, -5141, -5556, -5957,
     -6344, -6716, -7071, -7410, -7730, -8032, -8315, -8577, -8819, -9040,
     -9239, -9415, -9569, -9700, -9808, -9892, -9952, -9988, -10000, -9988,
     -9952, -9892, -9808, -9700, -9569, -9415, -9239, -9040, -8819, -8577,
     -8315, -8032, -7730, -7410, -7071, -6716, -6344, -5957, -5556, -5141,
     -4714, -4276, -3827, -3369, -2903, -2430, -1951, -1467, -980, -491, 0>>

\* Math.sin / Math.cos of (i / 128) * 2 pi
Sin128(i) == SinTab128[(i % 128) + 1]
Cos128(i) == SinTab128[((i + 32) % 128) + 1]

(***************************************************************************)
(* The events a page receives.                                             *)
(***************************************************************************)
NoPoint == Vec(0, 0, 0)

Event(type, target, hit, point) ==
  [type |-> type, target |-> target, hit |-> hit, point |-> point]

\* event.target of a pointer click: the render canvas or an element of the overlay
ClickTargets == {"canvas", "ui"}

\* no function is run on its own: the page runs
NoCall == [fn |-> "none"]

(***************************************************************************)
(* Hopf page: state, groups and palette.                                   *)
(***************************************************************************)
HopfToggles == {"pointToggle", "longitudeToggle", "latitudeToggle"}

fiberColors ==
  <<16711680, 16744192, 16776960, 65280, 65535, 255,
    8323327, 16711935, 16763904, 52479, 16733525, 5635925>>

\* variant: the counter is advanced before the palette is read
FiberColor_AfterIncrement(index) == fiberColors[((index + 1) % Len(fiberColors)) + 1]

\* fiberColors[fiberIndex % fiberColors.length]
FiberColor(index) == fiberColors[(index % Len(fiberColors)) + 1]

Panels == {"uiPanel", "infoPanel", "titleContainer"}

\* no frame has been exported yet
NoFrame == [p \in Panels |-> "none"]

\* the unit vectors a click on the sphere can yield (intersects[0].point normalized)
HopfPoints == { Vec(6000, 8000, 0), Vec(0, 0, Scale) }

\* the three.js groups and the colour counter, as the click handler threads them
Scene(fi, mg, fg, tg, sg, dr) ==
  [fiberIndex |-> fi, markersGroup |-> mg, fibersGroup |-> fg,
   torusGroup |-> tg, sphereLinesGroup |-> sg, drawn |-> dr]

\* createHopfFiber(n, color, group): the THREE.Line added to the group.  Its geometry,
\* getHopfFiberPoints(n), is a function of the base point n alone, so the line is kept
\* as its colour and n.
createHopfFiber(n, color) == [color |-> color, n |-> n]

\* createMarker(pos): the black dot added to markersGroup
createMarker(pos) == [position |-> pos]

\* the loops of both curve modes run i = 0..LastSample
LastSample == 200
\* longitude mode draws a fiber only while i <= LongitudeFiberLimit
LongitudeFiberLimit == 100

\* pathPoints of a curve mode: sample i of the circle through the clicked point is a
\* function of (mode, point, i) alone (lines 208-209, 221-222); the path is kept as
\* its samples' indices, in order, with the mode and the point that fix the circle
PathPoints(mode, point) ==
  [mode |-> mode, through |-> point, samples |-> [k \in 1..(LastSample + 1) |-> k - 1]]

\* drawSelectionCircle(points): sphereLinesGroup is cleared, then holds the one line
drawSelectionCircle(points) == <<points>>

\* the fibers a curve loop draws, one over each sample of `over` in order:
\* createHopfFiber(p, fiberColors[fiberIndex % fiberColors.length], torusGroup); fiberIndex++
LoopFibers(over, index) ==
  [k \in 1..Len(over) |-> createHopfFiber(over[k], FiberColor(index + k - 1))]

Colors(fibers) == [k \in 1..Len(fibers) |-> fibers[k].color]

\* variant: the Point block clears its two groups before it draws
PointStep_Replace(s, point) ==
  LET currentColor == FiberColor(s.fiberIndex)
  IN  [s EXCEPT !.fiberIndex = @ + 1,
                !.markersGroup = <<createMarker(point)>>,
                !.fibersGroup = <<createHopfFiber(point, currentColor)>>,
                !.drawn = Append(@, currentColor)]

\* if (selectionMode) { ... }
PointStep(s, point) ==
  LET currentColor == FiberColor(s.fiberIndex)
  IN  [s EXCEPT !.fiberIndex = @ + 1,
                !.markersGroup = Append(@, createMarker(point)),
                !.fibersGroup = Append(@, createHopfFiber(point, currentColor)),
                !.drawn = Append(@, currentColor)]

\* variant: the half-circle test written with < instead of <=
LongitudeDraws_Strict(i) == i < LongitudeFiberLimit

\* if (i <= 100) { createHopfFiber(...); fiberIndex++ }
LongitudeDraws(i) == i <= LongitudeFiberLimit

\* variant: the Longitude block without torusGroup.clear()
LongitudeStep_NoClear(s, point) ==
  LET pathPoints == PathPoints("longitude", point)
      fibers == LoopFibers(SelectSeq(pathPoints.samples, LongitudeDraws), s.fiberIndex)
  IN  [s EXCEPT !.torusGroup = @ \o fibers,
                !.fiberIndex = @ + Len(fibers),
                !.sphereLinesGroup = drawSelectionCircle(pathPoints),
                !.drawn = @ \o Colors(fibers)]

\* if (longitudeMode) { ... }
LongitudeStep(s, point) ==
  LET pathPoints == PathPoints("longitude", point)
      fibers == LoopFibers(SelectSeq(pathPoints.samples, LongitudeDraws), s.fiberIndex)
  IN  [s EXCEPT !.torusGroup = fibers,
                !.fiberIndex = @ + Len(fibers),
                !.sphereLinesGroup = drawSelectionCircle(pathPoints),
                !.drawn = @ \o Colors(fibers)]

\* if (latitudeMode) { ... }
LatitudeStep(s, point) ==
  LET pathPoints == PathPoints("latitude", point)
      fibers == LoopFibers(pathPoints.samples, s.fiberIndex)
  IN  [s EXCEPT !.torusGroup = fibers,
                !.fiberIndex = @ + Len(fibers),
                !.sphereLinesGroup = drawSelectionCircle(pathPoints),
                !.drawn = @ \o Colors(fibers)]

\* the body of the click listener once the three early returns are passed
HopfDraw(s, point) ==
  LET s1 == IF selectionMode THEN PointStep(s, point) ELSE s
      s2 == IF longitudeMode THEN LongitudeStep(s1, point) ELSE s1
  IN  IF latitudeMode THEN LatitudeStep(s2, point) ELSE s2

\* variant: the listener without its holdScene return
HopfClickIgnored_NoFreeze(target, hit) == target # "canvas" \/ ~hit

\* variant: the listener without its intersects.length === 0 return; the ray's
\* nearest point is then whatever the raycaster left
HopfClickIgnored_NoMiss(target, hit) == holdScene \/ target # "canvas"

\* the three early returns of the click listener
HopfClickIgnored(target, hit) == holdScene \/ target # "canvas" \/ ~hit

hopfCapture == <<hopfPanels, hopfFlash, hopfTimers, hopfFrame>>
hopfModes == <<toggleList, selectionMode, longitudeMode, latitudeMode>>
hopfGroups == <<markersGroup, fibersGroup, torusGroup, sphereLinesGroup>>
hopfFreeze == <<holdScene, freezeBtnText>>

\* variant: torusGroup.clear() left out
clearPreviousSelections_KeepTorus ==
  /\ markersGroup' = <<>>
  /\ fibersGroup' = <<>>
  /\ sphereLinesGroup' = <<>>
  /\ UNCHANGED torusGroup

\* clearPreviousSelections()
clearPreviousSelections ==
  /\ markersGroup' = <<>>
  /\ fibersGroup' = <<>>
  /\ torusGroup' = <<>>
  /\ sphereLinesGroup' = <<>>

\* variant: the other checkboxes are left as they are
UncheckOthers_None(checked, t) == checked

\* toggleList.forEach(other => { if (other !== t) other.checked = false })
UncheckOthers(checked, t) == [o \in DOMAIN checked |-> IF o # t THEN FALSE ELSE checked[o]]

\* the checkboxes once the change listener of t has run; the browser has flipped
\* t.checked before it dispatches the event
AfterChange(checked, t) ==
  LET flipped == [checked EXCEPT ![t] = ~@]
  IN  IF flipped[t] THEN UncheckOthers(flipped, t) ELSE flipped

\* variant: the drawing is cleared only when the box was checked, as on the
\* stereographic page
ToggleListChange_ClearOnCheck(t) ==
  /\ page = "hopf"
  /\ event' = Event("change", t, FALSE, NoPoint)
  /\ toggleList' = AfterChange(toggleList, t)
  /\ IF toggleList'[t] THEN clearPreviousSelections ELSE UNCHANGED hopfGroups
  /\ selectionMode' = toggleList'["pointToggle"]
  /\ longitudeMode' = toggleList'["longitudeToggle"]
  /\ latitudeMode' = toggleList'["latitudeToggle"]
  /\ UNCHANGED <<page, call, holdScene, freezeBtnText, fiberIndex, drawn, clicks, hopfCapture, stereoVars>>

\* t.addEventListener('change', ...)
ToggleListChange(t) ==
  /\ page = "hopf"
  /\ event' = Event("change", t, FALSE, NoPoint)
  /\ toggleList' = AfterChange(toggleList, t)
  /\ clearPreviousSelections
  /\ selectionMode' = toggleList'["pointToggle"]
  /\ longitudeMode' = toggleList'["longitudeToggle"]
  /\ latitudeMode' = toggleList'["latitudeToggle"]
  /\ UNCHANGED <<page, call, holdScene, freezeBtnText, fiberIndex, drawn, clicks, hopfCapture, stereoVars>>

\* variant: Reset without step 4, the freeze state left as it is
ResetBtnClick_KeepFreeze ==
  /\ page = "hopf"
  /\ event' = Event("reset", "reset-btn", FALSE, NoPoint)
  /\ clearPreviousSelections
  /\ toggleList' = [t \in HopfToggles |-> FALSE]
  /\ selectionMode' = FALSE
  /\ longitudeMode' = FALSE
  /\ latitudeMode' = FALSE
  /\ fiberIndex' = 0
  /\ drawn' = <<>>
  /\ clicks' = 0
  /\ UNCHANGED <<page, call, holdScene, freezeBtnText, hopfCapture, stereoVars>>

\* variant: Reset unchecks the boxes and forgets the three flags
ResetBtnClick_KeepFlags ==
  /\ page = "hopf"
  /\ event' = Event("reset", "reset-btn", FALSE, NoPoint)
  /\ clearPreviousSelections
  /\ toggleList' = [t \in HopfToggles |-> FALSE]
  /\ UNCHANGED <<selectionMode, longitudeMode, latitudeMode>>
  /\ fiberIndex' = 0
  /\ drawn' = <<>>
  /\ clicks' = 0
  /\ holdScene' = FALSE
  /\ freezeBtnText' = "Freeze"
  /\ UNCHANGED <<page, call, hopfCapture, stereoVars>>

\* resetBtn.addEventListener('click', ...)
ResetBtnClick ==
  /\ page = "hopf"
  /\ event' = Event("reset", "reset-btn", FALSE, NoPoint)
  /\ clearPreviousSelections
  /\ toggleList' = [t \in HopfToggles |-> FALSE]
  /\ selectionMode' = FALSE
  /\ longitudeMode' = FALSE
  /\ latitudeMode' = FALSE
  /\ fiberIndex' = 0
  /\ drawn' = <<>>
  /\ clicks' = 0
  /\ holdScene' = FALSE
  /\ freezeBtnText' = "Freeze"
  /\ UNCHANGED <<page, call, hopfCapture, stereoVars>>

\* variant: freezing also wipes the drawing
FreezeBtnClick_Clears ==
  /\ page = "hopf"
  /\ event' = Event("freeze", "freeze-btn", FALSE, NoPoint)
  /\ holdScene' = ~holdScene
  /\ freezeBtnText' = IF holdScene' THEN "Locked" ELSE "Freeze"
  /\ clearPreviousSelections
  /\ UNCHANGED <<page, call, hopfModes, fiberIndex, drawn, clicks, hopfCapture, stereoVars>>

\* freezeBtn.addEventListener('click', ...)
FreezeBtnClick ==
  /\ page = "hopf"
  /\ event' = Event("freeze", "freeze-btn", FALSE, NoPoint)
  /\ holdScene' = ~holdScene
  /\ freezeBtnText' = IF holdScene' THEN "Locked" ELSE "Freeze"
  /\ UNCHANGED <<page, call, hopfModes, hopfGroups, fiberIndex, drawn, clicks, hopfCapture, stereoVars>>

\* variant: a new capture cancels the restore that is still pending (clearTimeout)
CaptureBtnClick_Cancels ==
  /\ page = "hopf"
  /\ hopfTimers < MaxTimers
  /\ event' = Event("capture", "capture-btn", FALSE, NoPoint)
  /\ hopfPanels' = [p \in Panels |-> "hidden"]
  /\ hopfFrame' = hopfPanels'
  /\ hopfFlash' = "0.3"
  /\ hopfTimers' = 1
  /\ UNCHANGED <<page, call, hopfModes, hopfGroups, hopfFreeze, fiberIndex, drawn, clicks, stereoVars>>

\* captureBtn.addEventListener('click', ...): panels hidden, frame exported, flash on,
\* restore scheduled
CaptureBtnClick ==
  /\ page = "hopf"
  /\ hopfTimers < MaxTimers
  /\ event' = Event("capture", "capture-btn", FALSE, NoPoint)
  /\ hopfPanels' = [p \in Panels |-> "hidden"]
  /\ hopfFrame' = hopfPanels'
  /\ hopfFlash' = "0.3"
  /\ hopfTimers' = hopfTimers + 1
  /\ UNCHANGED <<page, call, hopfModes, hopfGroups, hopfFreeze, fiberIndex, drawn, clicks, stereoVars>>

\* variant: the callback turns the flash off and leaves the panels hidden
CaptureTimeout_FlashOnly ==
  /\ page = "hopf"
  /\ hopfTimers > 0
  /\ event' = Event("timeout", "capture-btn", FALSE, NoPoint)
  /\ hopfFlash' = "0"
  /\ hopfTimers' = hopfTimers - 1
  /\ UNCHANGED <<hopfPanels, hopfFrame>>
  /\ UNCHANGED <<page, call, hopfModes, hopfGroups, hopfFreeze, fiberIndex, drawn, clicks, stereoVars>>

\* the setTimeout callback of the capture handler (100 ms)
CaptureTimeout ==
  /\ page = "hopf"
  /\ hopfTimers > 0
  /\ event' = Event("timeout", "capture-btn", FALSE, NoPoint)
  /\ hopfFlash' = "0"
  /\ hopfPanels' = [p \in Panels |-> "visible"]
  /\ hopfTimers' = hopfTimers - 1
  /\ UNCHANGED hopfFrame
  /\ UNCHANGED <<page, call, hopfModes, hopfGroups, hopfFreeze, fiberIndex, drawn, clicks, stereoVars>>

\* window.addEventListener('click', ...)
WindowClick(target, hit, point) ==
  /\ page = "hopf"
  /\ event' = Event("click", target, hit, IF hit THEN point ELSE NoPoint)
  /\ IF HopfClickIgnored(target, hit)
     THEN UNCHANGED <<fiberIndex, hopfGroups, drawn, clicks>>
     ELSE LET s == HopfDraw(Scene(fiberIndex, markersGroup, fibersGroup, torusGroup,
                                  sphereLinesGroup, drawn), point)
          IN  /\ clicks < MaxClicks
              /\ clicks' = clicks + 1
              /\ fiberIndex' = s.fiberIndex
              /\ markersGroup' = s.markersGroup
              /\ fibersGroup' = s.fibersGroup
              /\ torusGroup' = s.torusGroup
              /\ sphereLinesGroup' = s.sphereLinesGroup
              /\ drawn' = s.drawn
  /\ UNCHANGED <<page, call, hopfModes, hopfFreeze, hopfCapture, stereoVars>>

HopfInit ==
  /\ toggleList = [t \in HopfToggles |-> FALSE]
  /\ selectionMode = FALSE
  /\ longitudeMode = FALSE
  /\ latitudeMode = FALSE
  /\ holdScene = FALSE
  /\ fiberIndex = 0
  /\ markersGroup = <<>>
  /\ fibersGroup = <<>>
  /\ torusGroup = <<>>
  /\ sphereLinesGroup = <<>>
  /\ freezeBtnText = "Freeze"
  /\ hopfPanels = [p \in Panels |-> "visible"]
  /\ hopfFlash = "0"
  /\ hopfTimers = 0
  /\ hopfFrame = NoFrame
  /\ drawn = <<>>
  /\ clicks = 0

HopfNext ==
  \/ \E t \in HopfToggles : ToggleListChange(t)
  \/ ResetBtnClick
  \/ FreezeBtnClick
  \/ CaptureBtnClick
  \/ CaptureTimeout
  \/ \E target \in ClickTargets, hit \in BOOLEAN, point \in HopfPoints :
        WindowClick(target, hit, point)

(***************************************************************************)
(* Stereographic page: geometry.                                           *)
(***************************************************************************)
StereoToggles == {"togglePoint", "toggleLongitude", "toggleLatitude"}

\* const radius = 1
radius == Scale
spherePos == Vec(0, radius, 0)
northPolePos == Vec(0, radius * 2, 0)

SPHERE_COLOR == 16711935
PLANE_COLOR == 3329330
\* the gray of the guide line from the pole to the ground
GUIDE_COLOR == 4473924

\* p.distanceTo(northPolePos) < 0.08, in 1/Scale units
PoleWarningDistance == 800
\* sp.distanceTo(northPolePos) > 0.05, in 1/Scale units
PoleSkipDistance == 500
\* both curve loops run i = 0..CurveSamples
CurveSamples == 128

\* the surface points a click on the sphere can yield (intersects[0].point):
\* on the equator, the pole itself, 0.06 from the pole, 0.10 from the pole,
\* and the contact point with the ground
StereoPoints ==
  { Vec(Scale, Scale, 0), Vec(0, 2 * Scale, 0), Vec(600, 19982, 0),
    Vec(0, 19950, 999), Vec(0, 0, 0) }

\* variant: the ray parameter taken from the sphere's centre height, -spherePos.y / direction.y
projectPoint_FromCentre(p) ==
  LET dx == p.x - northPolePos.x
      dy == p.y - northPolePos.y
      dz == p.z - northPolePos.z
  IN  IF dy = 0
      THEN Vec(NonFinite, 0, NonFinite)
      ELSE Vec(northPolePos.x + RoundDiv(dx * (-spherePos.y), dy),
               0,
               northPolePos.z + RoundDiv(dz * (-spherePos.y), dy))

\* projectPoint(p): where the ray from the pole through p meets y = 0.  A zero
\* direction.y makes t infinite and the coordinates non-finite.
projectPoint(p) ==
  LET dx == p.x - northPolePos.x
      dy == p.y - northPolePos.y
      dz == p.z - northPolePos.z
  IN  IF dy = 0
      THEN Vec(NonFinite, 0, NonFinite)
      ELSE Vec(northPolePos.x + RoundDiv(dx * (-northPolePos.y), dy),
               0,
               northPolePos.z + RoundDiv(dz * (-northPolePos.y), dy))

\* drawLine(points, color): the THREE.Line added to projectGroup
drawLine(points, color) == [type |-> "Line", color |-> color, points |-> points]

\* new THREE.Mesh(SphereGeometry(0.025), {color}) placed at position
Marker(position, color) == [type |-> "Mesh", color |-> color, points |-> <<position>>]

\* variant: the click guard written with the longitude loop's 0.05
NearPole_SkipDistance(p) == DistSq(p, northPolePos) < PoleSkipDistance * PoleSkipDistance

\* p.distanceTo(northPolePos) < 0.08
NearPole(p) == DistSq(p, northPolePos) < PoleWarningDistance * PoleWarningDistance

\* variant: only the pole itself is left out of the plane curve
Projectable_PoleOnly(sp) == sp # northPolePos

\* sp.distanceTo(northPolePos) > 0.05
Projectable(sp) == DistSq(sp, northPolePos) > PoleSkipDistance * PoleSkipDistance

\* --- MODE 1: SINGLE POINT ---
PointMode(group, p) ==
  LET proj == projectPoint(p)
  IN  group \o <<drawLine(<<northPolePos, proj>>, GUIDE_COLOR),
                 Marker(p, SPHERE_COLOR),
                 Marker(proj, PLANE_COLOR)>>

\* const r = Math.sqrt(Math.max(0, radius * radius - localY * localY))
LatitudeRadius(p) ==
  LET localY == p.y - spherePos.y
      d == radius * radius - localY * localY
  IN  ISqrt(IF d > 0 THEN d ELSE 0)

\* latitude mode, sample i: (r cos(angle), p.y, r sin(angle))
LatitudeSample(r, y, i) ==
  Vec(RoundDiv(r * Cos128(i), Scale), y, RoundDiv(r * Sin128(i), Scale))

\* --- MODE 2: LATITUDE ---
LatitudeMode(group, p) ==
  LET r == LatitudeRadius(p)
      pointsSphere == [k \in 1..(CurveSamples + 1) |-> LatitudeSample(r, p.y, k - 1)]
      pointsPlane == [k \in 1..(CurveSamples + 1) |-> projectPoint(pointsSphere[k])]
  IN  group \o <<drawLine(pointsSphere, SPHERE_COLOR), drawLine(pointsPlane, PLANE_COLOR)>>

\* Math.cos / Math.sin of angle = Math.atan2(p.z, p.x); atan2(0, 0) = 0
CosAngle(p) ==
  LET h == ISqrt(p.x * p.x + p.z * p.z)
  IN  IF h = 0 THEN Scale ELSE RoundDiv(p.x * Scale, h)
SinAngle(p) ==
  LET h == ISqrt(p.x * p.x + p.z * p.z)
  IN  IF h = 0 THEN 0 ELSE RoundDiv(p.z * Scale, h)

\* longitude mode, sample i:
\* (cos(phi) cos(angle), sin(phi) + spherePos.y, cos(phi) sin(angle))
LongitudeSample(cosA, sinA, i) ==
  Vec(RoundDiv(Cos128(i) * cosA, Scale),
      RoundDiv(radius * Sin128(i), Scale) + spherePos.y,
      RoundDiv(Cos128(i) * sinA, Scale))

\* --- MODE 3: LONGITUDE ---
LongitudeMode(group, p) ==
  LET cosA == CosAngle(p)
      sinA == SinAngle(p)
      pointsSphere == [k \in 1..(CurveSamples + 1) |-> LongitudeSample(cosA, sinA, k - 1)]
      kept == SelectSeq(pointsSphere, Projectable)
      pointsPlane == [k \in 1..Len(kept) |-> projectPoint(kept[k])]
      g == Append(group, drawLine(pointsSphere, SPHERE_COLOR))
  IN  IF Len(pointsPlane) > 1 THEN Append(g, drawLine(pointsPlane, PLANE_COLOR)) ELSE g

\* variant: the click listener without projectGroup.clear()
StereoDraw_NoClear(p) ==
  LET g1 == IF toggles["togglePoint"] THEN PointMode(projectGroup, p) ELSE projectGroup
      g2 == IF toggles["toggleLatitude"] THEN LatitudeMode(g1, p) ELSE g1
  IN  IF toggles["toggleLongitude"] THEN LongitudeMode(g2, p) ELSE g2

\* the click listener after projectGroup.clear(): the three mode blocks in order
StereoDraw(p) ==
  LET g1 == IF toggles["togglePoint"] THEN PointMode(<<>>, p) ELSE <<>>
      g2 == IF toggles["toggleLatitude"] THEN LatitudeMode(g1, p) ELSE g1
  IN  IF toggles["toggleLongitude"] THEN LongitudeMode(g2, p) ELSE g2

\* the three early returns of the click listener
StereoClickIgnored(target, hit) == isFrozen \/ target # "canvas" \/ ~hit

stereoCapture == <<stereoPanels, stereoFlash, stereoTimers, stereoFrame>>
stereoFreeze == <<isFrozen, stereoFreezeText>>

(***************************************************************************)
(* Stereographic page: listeners.                                          *)
(***************************************************************************)
\* resetExhibition()
resetExhibition ==
  /\ projectGroup' = <<>>
  /\ warning' = "none"
  /\ toggles' = [t \in StereoToggles |-> FALSE]

\* resetBtn.addEventListener("click", ...); the button's own opacity blink is not state
StereoResetBtnClick ==
  /\ page = "stereographic"
  /\ event' = Event("reset", "reset-btn", FALSE, NoPoint)
  /\ resetExhibition
  /\ UNCHANGED <<page, call, stereoFreeze, stereoCapture, hopfVars>>

\* freezeBtn.addEventListener("click", ...)
StereoFreezeBtnClick ==
  /\ page = "stereographic"
  /\ event' = Event("freeze", "freeze-btn", FALSE, NoPoint)
  /\ isFrozen' = ~isFrozen
  /\ stereoFreezeText' = IF isFrozen' THEN "Frozen" ELSE "Freeze"
  /\ UNCHANGED <<page, call, toggles, projectGroup, warning, stereoCapture, hopfVars>>

\* captureBtn.addEventListener('click', ...)
StereoCaptureBtnClick ==
  /\ page = "stereographic"
  /\ stereoTimers < MaxTimers
  /\ event' = Event("capture", "capture-btn", FALSE, NoPoint)
  /\ stereoPanels' = [p \in Panels |-> "hidden"]
  /\ stereoFrame' = stereoPanels'
  /\ stereoFlash' = "0.3"
  /\ stereoTimers' = stereoTimers + 1
  /\ UNCHANGED <<page, call, toggles, projectGroup, warning, stereoFreeze, hopfVars>>

\* the setTimeout callback of the capture handler (150 ms)
StereoCaptureTimeout ==
  /\ page = "stereographic"
  /\ stereoTimers > 0
  /\ event' = Event("timeout", "capture-btn", FALSE, NoPoint)
  /\ stereoFlash' = "0"
  /\ stereoPanels' = [p \in Panels |-> "visible"]
  /\ stereoTimers' = stereoTimers - 1
  /\ UNCHANGED stereoFrame
  /\ UNCHANGED <<page, call, toggles, projectGroup, warning, stereoFreeze, hopfVars>>

\* variant: the drawing and the warning are cleared on every change, as on the Hopf page
TogglesChange_AlwaysClears(t) ==
  LET flipped == [toggles EXCEPT ![t] = ~@]
  IN  /\ page = "stereographic"
      /\ event' = Event("change", t, FALSE, NoPoint)
      /\ toggles' = IF flipped[t] THEN UncheckOthers(flipped, t) ELSE flipped
      /\ projectGroup' = <<>>
      /\ warning' = "none"
      /\ UNCHANGED <<page, call, stereoFreeze, stereoCapture, hopfVars>>

\* t.addEventListener("change", ...); the browser has flipped t.checked before
TogglesChange(t) ==
  LET flipped == [toggles EXCEPT ![t] = ~@]
  IN  /\ page = "stereographic"
      /\ event' = Event("change", t, FALSE, NoPoint)
      /\ IF flipped[t]
         THEN /\ toggles' = UncheckOthers(flipped, t)
              /\ projectGroup' = <<>>
              /\ warning' = "none"
         ELSE /\ toggles' = flipped
              /\ UNCHANGED <<projectGroup, warning>>
      /\ UNCHANGED <<page, call, stereoFreeze, stereoCapture, hopfVars>>

\* window.addEventListener("click", ...)
StereoWindowClick(target, hit, point) ==
  /\ page = "stereographic"
  /\ event' = Event("click", target, hit, IF hit THEN point ELSE NoPoint)
  /\ IF StereoClickIgnored(target, hit)
     THEN UNCHANGED <<projectGroup, warning>>
     ELSE IF NearPole(point)
          THEN /\ warning' = "block"
               /\ UNCHANGED projectGroup
          ELSE /\ warning' = "none"
               /\ projectGroup' = StereoDraw(point)
  /\ UNCHANGED <<page, call, toggles, stereoFreeze, stereoCapture, hopfVars>>

StereoInit ==
  /\ toggles = [t \in StereoToggles |-> FALSE]
  /\ isFrozen = FALSE
  /\ projectGroup = <<>>
  /\ warning = "none"
  /\ stereoFreezeText = "Freeze"
  /\ stereoPanels = [p \in Panels |-> "visible"]
  /\ stereoFlash = "0"
  /\ stereoTimers = 0
  /\ stereoFrame = NoFrame

StereoNext ==
  \/ \E t \in StereoToggles : TogglesChange(t)
  \/ StereoResetBtnClick
  \/ StereoFreezeBtnClick
  \/ StereoCaptureBtnClick
  \/ StereoCaptureTimeout
  \/ \E target \in ClickTargets, hit \in BOOLEAN, point \in StereoPoints :
        StereoWindowClick(target, hit, point)

(***************************************************************************)
(* The specification.                                                      *)
(***************************************************************************)
Init ==
  /\ page \in {"hopf", "stereographic"}
  /\ event = Event("load", "window", FALSE, NoPoint)
  /\ call = NoCall
  /\ HopfInit
  /\ StereoInit

Next == HopfNext \/ StereoNext

Spec == Init /\ [][Next]_vars

\* a scheduled setTimeout callback is run by the event loop once its delay has passed:
\* no pending restore waits forever
FairSpec == Spec /\ WF_vars(CaptureTimeout) /\ WF_vars(StereoCaptureTimeout)

(***************************************************************************)
(* projectPoint run on its own.                                            *)
(***************************************************************************)
\* the ground points tried lie on a grid of (2 MaxGrid + 1)^2 nodes, GridStep apart
MaxGrid == 3
GridStep == 7500
\* how often the result is projected again
MaxReproject == 2

GroundPoints ==
  { Vec(i * GridStep, 0, j * GridStep) : i \in (-MaxGrid)..MaxGrid, j \in (-MaxGrid)..MaxGrid }

\* arguments of projectPoint: the ground points, and sphere points on the equator and
\* at the contact with the ground
ProjectInputs ==
  GroundPoints \cup { Vec(Scale, Scale, 0), Vec(0, Scale, -Scale), Vec(0, 0, 0) }

pageVars == <<page, event, hopfVars, stereoVars>>

InitProject ==
  /\ page = "stereographic"
  /\ event = Event("load", "window", FALSE, NoPoint)
  /\ HopfInit
  /\ StereoInit
  /\ \E p \in ProjectInputs :
        call = [fn |-> "projectPoint", arg |-> p, result |-> NoPoint, applied |-> 0]

\* projectPoint(p)
ProjectPointCall ==
  /\ call.fn = "projectPoint"
  /\ call.applied = 0
  /\ call' = [call EXCEPT !.result = projectPoint(call.arg), !.applied = 1]
  /\ UNCHANGED pageVars

\* projectPoint(projectPoint(p)): the result is the next argument
ProjectPointAgain ==
  /\ call.fn = "projectPoint"
  /\ call.applied > 0
  /\ call.applied < MaxReproject
  /\ call' = [call EXCEPT !.arg = call.result,
                          !.result = projectPoint(call.result),
                          !.applied = @ + 1]
  /\ UNCHANGED pageVars

NextProject == ProjectPointCall \/ ProjectPointAgain

SpecProject == InitProject /\ [][NextProject]_vars

(***************************************************************************)
(* getHopfFiberPoints run on its own: the loop counter t is a double.      *)
(* A double that is a multiple of 2^-FracBits below 2^(Width - FracBits)   *)
(* is kept as its Width binary digits, most significant first; every       *)
(* arithmetic result is rounded to MantissaBits significant digits, to     *)
(* nearest, ties to even, as IEEE 754 prescribes.                          *)
(***************************************************************************)
Width == 66
FracBits == 62
MantissaBits == 53

\* the loop is run for segments = 1..MaxSegments and for the default
MaxSegments == 16
\* segments=1000
DefaultSegments == 1000
SegmentCounts == (1..MaxSegments) \cup {DefaultSegments}

Zero == [i \in 1..Width |-> 0]

\* the binary digits of a sequence of hexadecimal digits
HexBits(h) == [k \in 1..(4 * Len(h)) |-> (h[((k - 1) \div 4) + 1] \div (2 ^ (3 - ((k - 1) % 4)))) % 2]

\* the significand of Math.PI, 0x1.921FB54442D18p+1, as the integer 0x1921FB54442D18
PiSignificand == <<1, 9, 2, 1, 15, 11, 5, 4, 4, 4, 2, 13, 1, 8>>

\* Math.PI*2 and 2*Math.PI: the same significand, leading digit of weight 4
TwoPi ==
  LET digits == HexBits(PiSignificand)
      lead == Width - FracBits - 3
  IN  [i \in 1..Width |-> IF i > lead /\ i - lead + 3 <= Len(digits)
                          THEN digits[i - lead + 3] ELSE 0]

\* a <= b
Leq(a, b) == ~ \E i \in 1..Width : a[i] > b[i] /\ \A j \in 1..(i - 1) : a[j] = b[j]

\* two runs of digits side by side: the carry out is the left run's
Join(left, right) == [digits |-> left.digits \o right.digits, carry |-> left.carry]

\* digits lo..hi of the sum a + b and the carry out of digit lo, given the carry into
\* digit hi: the right half is summed first, its carry goes into the left half
RECURSIVE AddRange(_, _, _, _, _)
AddRange(a, b, lo, hi, carry) ==
  IF lo = hi
  THEN [digits |-> <<(a[lo] + b[lo] + carry) % 2>>, carry |-> (a[lo] + b[lo] + carry) \div 2]
  ELSE LET mid == (lo + hi) \div 2
           right == AddRange(a, b, mid + 1, hi, carry)
       IN  IF right.carry = 0
           THEN Join(AddRange(a, b, lo, mid, 0), right)
           ELSE Join(AddRange(a, b, lo, mid, 1), right)

\* the exact sum a + b (no carry out of the leading digit for the values of the loop)
AddBits(a, b) == AddRange(a, b, 1, Width, 0).digits

\* a rounded to MantissaBits significant digits, ties to even; `sticky` tells that the
\* exact value has further non-zero digits below the last digit of a
RoundDouble(a, sticky) ==
  IF a = Zero THEN a
  ELSE LET lead == CHOOSE i \in 1..Width : a[i] = 1 /\ \A j \in 1..(i - 1) : a[j] = 0
           last == lead + MantissaBits - 1
       IN  IF last >= Width THEN a
           ELSE LET below == sticky \/ \E i \in (last + 2)..Width : a[i] = 1
                    up == a[last + 1] = 1 /\ (below \/ a[last] = 1)
                    kept == [i \in 1..Width |-> IF i <= last THEN a[i] ELSE 0]
                    ulp == [i \in 1..Width |-> IF i = last THEN 1 ELSE 0]
                IN  IF up THEN AddBits(kept, ulp) ELSE kept

\* long division of digits lo..hi of a by a positive integer d, given the remainder
\* left by the digits before lo: the quotient's digits and the remainder
RECURSIVE DivRange(_, _, _, _, _)
DivRange(a, d, lo, hi, rem) ==
  IF lo = hi
  THEN [digits |-> <<(2 * rem + a[lo]) \div d>>, rem |-> (2 * rem + a[lo]) % d]
  ELSE LET mid == (lo + hi) \div 2
           left == DivRange(a, d, lo, mid, rem)
           right == DivRange(a, d, mid + 1, hi, left.rem)
       IN  [digits |-> left.digits \o right.digits, rem |-> right.rem]

\* a / d, correctly rounded
DivDouble(a, d) ==
  LET q == DivRange(a, d, 1, Width, 0)
  IN  RoundDouble(q.digits, q.rem # 0)

\* (2*Math.PI)/segments
FiberStep(segments) == DivDouble(TwoPi, segments)

\* t+=(2*Math.PI)/segments
NextT(t, segments) == RoundDouble(AddBits(t, FiberStep(segments)), FALSE)

InitFiber ==
  /\ page = "hopf"
  /\ event = Event("load", "window", FALSE, NoPoint)
  /\ HopfInit
  /\ StereoInit
  /\ \E n \in HopfPoints, segments \in SegmentCounts :
        call = [fn |-> "getHopfFiberPoints", n |-> n, segments |-> segments,
                t |-> Zero, points |-> 0, returned |-> FALSE]

\* one pass of for(let t=0;t<=Math.PI*2;t+=(2*Math.PI)/segments){ ...; points.push(...) }
GetHopfFiberPointsLoop ==
  /\ call.fn = "getHopfFiberPoints"
  /\ ~call.returned
  /\ Leq(call.t, TwoPi)
  /\ call' = [call EXCEPT !.points = @ + 1, !.t = NextT(call.t, call.segments)]
  /\ UNCHANGED pageVars

\* the loop test fails: return points
GetHopfFiberPointsReturn ==
  /\ call.fn = "getHopfFiberPoints"
  /\ ~call.returned
  /\ ~Leq(call.t, TwoPi)
  /\ call' = [call EXCEPT !.returned = TRUE]
  /\ UNCHANGED pageVars

NextFiber == GetHopfFiberPointsLoop \/ GetHopfFiberPointsReturn

SpecFiber == InitFiber /\ [][NextFiber]_vars

(***************************************************************************)
(* Properties.                                                             *)
(***************************************************************************)
Checked(boxes) == Cardinality({t \in DOMAIN boxes : boxes[t]})

HopfFlagsSet ==
  Cardinality({f \in {<<1, selectionMode>>, <<2, longitudeMode>>, <<3, latitudeMode>>} : f[2]})

HopfGroupsEmpty ==
  /\ markersGroup = <<>>
  /\ fibersGroup = <<>>
  /\ torusGroup = <<>>
  /\ sphereLinesGroup = <<>>

\* the step is a pointer click on the Hopf page / the stereographic page
HopfClicked == page = "hopf" /\ event'.type = "click"
StereoClicked == page = "stereographic" /\ event'.type = "click"

\* the step is a click that passes the early returns: unfrozen, on the canvas, on the sphere
HopfAccepted == HopfClicked /\ ~holdScene /\ event'.target = "canvas" /\ event'.hit
StereoAccepted == StereoClicked /\ ~isFrozen /\ event'.target = "canvas" /\ event'.hit

\* C1: in both tools, in every reachable state, at most one of the three modes
\* Point, Longitude, Latitude is active (checkboxes, and the Hopf page's flags).
C1_AtMostOneMode ==
  /\ Checked(toggleList) <= 1
  /\ HopfFlagsSet <= 1
  /\ Checked(toggles) <= 1

\* reached: Latitude has just been activated after a Longitude click drew its 101 fibers
C1_Witness ==
  /\ page = "hopf"
  /\ event.type = "change"
  /\ event.target = "latitudeToggle"
  /\ latitudeMode
  /\ Len(drawn) = 101

\* C2: in both tools, right after a toggle-change event that checks a mode, every
\* drawn-artifact collection of the tool is empty, whatever the Freeze flag.
C2_ActivationClears ==
  /\ (page = "hopf" /\ event.type = "change" /\ toggleList[event.target]) => HopfGroupsEmpty
  /\ (page = "stereographic" /\ event.type = "change" /\ toggles[event.target])
        => projectGroup = <<>>

\* reached: frozen, fibers were drawn since the last Reset, and a mode was just activated
C2_Witness ==
  /\ page = "hopf"
  /\ event.type = "change"
  /\ toggleList[event.target]
  /\ holdScene
  /\ drawn # <<>>

\* C3: on the Hopf page the state after Reset has no drawn artifact in any of the four
\* groups, all three mode flags and checkboxes false, Freeze false and colour index 0.
C3_HopfReset ==
  (page = "hopf" /\ event.type = "reset") =>
      /\ HopfGroupsEmpty
      /\ ~selectionMode /\ ~longitudeMode /\ ~latitudeMode
      /\ \A t \in HopfToggles : ~toggleList[t]
      /\ ~holdScene
      /\ fiberIndex = 0

\* reached: Reset has run while a capture's restore timer was still pending
C3_Witness ==
  /\ page = "hopf"
  /\ event.type = "reset"
  /\ hopfTimers > 0

\* C4: on the stereographic page the state after Reset has Mode Idle, Freeze unfrozen
\* and no drawn artifact.
C4_StereoReset ==
  (page = "stereographic" /\ event.type = "reset") =>
      /\ projectGroup = <<>>
      /\ \A t \in StereoToggles : ~toggles[t]
      /\ ~isFrozen

\* C5: in both tools a pointer click while the Freeze flag is true changes nothing: no
\* artifact, not the colour index, not the warning.
C5_FrozenClickNoOp ==
  [][ /\ (HopfClicked /\ holdScene) => UNCHANGED hopfVars
      /\ (StereoClicked /\ isFrozen) => UNCHANGED stereoVars ]_vars

\* reached: frozen in Longitude mode with a drawing, and the last event was a click on
\* the sphere
C5_Witness ==
  /\ page = "hopf"
  /\ event.type = "click"
  /\ event.target = "canvas"
  /\ event.hit
  /\ holdScene
  /\ longitudeMode
  /\ torusGroup # <<>>

\* C6: in both tools a Freeze toggle flips the Freeze flag and leaves the mode, the
\* drawn artifacts and the colour index as they were; a mode toggle-change never
\* changes the Freeze flag.
C6_FreezeOrthogonal ==
  [][ /\ (page = "hopf" /\ event'.type = "freeze") =>
            /\ holdScene' = ~holdScene
            /\ UNCHANGED <<hopfModes, hopfGroups, fiberIndex>>
      /\ (page = "hopf" /\ event'.type = "change") => UNCHANGED holdScene
      /\ (page = "stereographic" /\ event'.type = "freeze") =>
            /\ isFrozen' = ~isFrozen
            /\ UNCHANGED <<toggles, projectGroup>>
      /\ (page = "stereographic" /\ event'.type = "change") => UNCHANGED isFrozen ]_vars

\* reached: Freeze was just switched on in Latitude mode with its fibers on screen
C6_Witness ==
  /\ page = "hopf"
  /\ event.type = "freeze"
  /\ holdScene
  /\ latitudeMode
  /\ torusGroup # <<>>

\* C7: on the stereographic page an unfrozen click on the sphere closer than 0.08 to
\* northPolePos shows the warning and leaves the drawing exactly as it was, in any mode.
C7_PoleGuard ==
  [][ ( /\ StereoAccepted
        /\ DistSq(event'.point, northPolePos) < PoleWarningDistance * PoleWarningDistance )
      => (warning' = "block" /\ UNCHANGED projectGroup) ]_vars

\* reached: a click 0.06 from the pole, in Point mode, with an earlier drawing kept
C7_Witness ==
  /\ page = "stereographic"
  /\ event.type = "click"
  /\ event.target = "canvas"
  /\ event.hit
  /\ event.point = Vec(600, 19982, 0)
  /\ ~isFrozen
  /\ toggles["togglePoint"]
  /\ warning = "block"
  /\ projectGroup # <<>>

\* C8: in both tools a click that misses the sphere, or whose target is not the canvas,
\* changes nothing: mode, Freeze flag, artifacts, colour index, warning.
C8_MissNoOp ==
  [][ /\ (HopfClicked /\ (~event'.hit \/ event'.target # "canvas")) => UNCHANGED hopfVars
      /\ (StereoClicked /\ (~event'.hit \/ event'.target # "canvas"))
            => UNCHANGED stereoVars ]_vars

\* reached: unfrozen in Point mode with a marker drawn, and the last click was on the
\* canvas beside the sphere
C8_Witness ==
  /\ page = "hopf"
  /\ event.type = "click"
  /\ event.target = "canvas"
  /\ ~event.hit
  /\ ~holdScene
  /\ selectionMode
  /\ markersGroup # <<>>

\* C9: on the Hopf page one accepted click draws exactly 101 fibers in Longitude mode,
\* over samples 0..100 of the 201, and exactly 201 in Latitude mode, over samples
\* 0..200, and advances the colour index by that number.
C9_FibersPerClick ==
  [][ /\ (HopfAccepted /\ longitudeMode) =>
            /\ Len(torusGroup') = 101
            /\ \A k \in 1..101 : torusGroup'[k].n = k - 1
            /\ Len(sphereLinesGroup'[1].samples) = 201
            /\ fiberIndex' = fiberIndex + 101
      /\ (HopfAccepted /\ latitudeMode) =>
            /\ Len(torusGroup') = 201
            /\ \A k \in 1..201 : torusGroup'[k].n = k - 1
            /\ Len(sphereLinesGroup'[1].samples) = 201
            /\ fiberIndex' = fiberIndex + 201 ]_vars

\* reached: a Latitude click has just drawn its 201 fibers after a Longitude click's 101
C9_Witness ==
  /\ page = "hopf"
  /\ event.type = "click"
  /\ latitudeMode
  /\ ~holdScene
  /\ Len(torusGroup) = 201
  /\ fiberIndex = 302

\* the fibers on screen, oldest first
FibersShown == Colors(fibersGroup) \o Colors(torusGroup)

\* C10: on the Hopf page the k-th fiber drawn since the last Reset (k from 0, across
\* modes and mode switches) has palette entry k mod 12 of the 12 colours, the fibers on
\* screen are the latest of them, and the colour index changes only by +1 per fiber
\* drawn and to 0 on Reset.
C10_ColorCycle ==
  /\ [](/\ Len(fiberColors) = 12
        /\ Len(drawn) = fiberIndex
        /\ \A k \in 1..Len(drawn) : drawn[k] = fiberColors[((k - 1) % 12) + 1]
        /\ FibersShown = SubSeq(drawn, Len(drawn) - Len(FibersShown) + 1, Len(drawn)))
  /\ [][ fiberIndex' # fiberIndex =>
            \/ event'.type = "reset" /\ fiberIndex' = 0
            \/ /\ HopfAccepted
               /\ fiberIndex' - fiberIndex =
                    (Len(fibersGroup') - Len(fibersGroup))
                    + (IF longitudeMode \/ latitudeMode THEN Len(torusGroup') ELSE 0) ]_vars

\* reached: Point click, Longitude click, Point click: the 103rd fiber is on screen alone
C10_Witness ==
  /\ page = "hopf"
  /\ selectionMode
  /\ Len(fibersGroup) = 1
  /\ fiberIndex = 103

\* C11: in the Hopf page's Point mode every accepted click appends one marker and one
\* fiber and removes none, and only a toggle change or Reset takes any away; so n
\* such clicks in a row leave exactly n markers and n fibers.
C11_PointAccumulates ==
  /\ [](/\ Len(markersGroup) = Len(fibersGroup)
        /\ Len(markersGroup) <= clicks)
  /\ [][ /\ (HopfAccepted /\ selectionMode) =>
               /\ Len(markersGroup') = Len(markersGroup) + 1
               /\ Len(fibersGroup') = Len(fibersGroup) + 1
               /\ SubSeq(markersGroup', 1, Len(markersGroup)) = markersGroup
               /\ SubSeq(fibersGroup', 1, Len(fibersGroup)) = fibersGroup
               /\ markersGroup'[Len(markersGroup')].position = event'.point
               /\ fibersGroup'[Len(fibersGroup')].n = event'.point
         /\ (page = "hopf" /\ event'.type \notin {"change", "reset"}
               /\ ~(HopfAccepted /\ selectionMode)) =>
               UNCHANGED <<markersGroup, fibersGroup>> ]_vars

\* reached: the third Point click in a row, at another point than the second
C11_Witness ==
  /\ page = "hopf"
  /\ event.type = "click"
  /\ selectionMode
  /\ clicks = 3
  /\ Len(markersGroup) = 3
  /\ Len(fibersGroup) = 3
  /\ markersGroup[2] # markersGroup[3]

\* C12: in the Hopf page's Longitude and Latitude modes an accepted click leaves only
\* its own fibers (101 resp. 201, the latest drawn) and the one guide circle through
\* the clicked point; no state holds two guide circles or fibers of two clicks.
C12_CurveReplaced ==
  /\ [](/\ Len(sphereLinesGroup) <= 1
        /\ Len(torusGroup) \in {0, 101, 201}
        /\ (longitudeMode /\ torusGroup # <<>>) => Len(torusGroup) = 101
        /\ (latitudeMode /\ torusGroup # <<>>) => Len(torusGroup) = 201
        /\ Len(sphereLinesGroup) = 1 <=> torusGroup # <<>>)
  /\ [][ (HopfAccepted /\ (longitudeMode \/ latitudeMode)) =>
            /\ Len(torusGroup') = IF longitudeMode THEN 101 ELSE 201
            /\ Colors(torusGroup') = SubSeq(drawn', Len(drawn) + 1, Len(drawn'))
            /\ Len(sphereLinesGroup') = 1
            /\ sphereLinesGroup'[1].through = event'.point
            /\ sphereLinesGroup'[1].mode = IF longitudeMode THEN "longitude" ELSE "latitude"
       ]_vars

\* reached: the third Longitude click in a row
C12_Witness ==
  /\ page = "hopf"
  /\ event.type = "click"
  /\ longitudeMode
  /\ clicks = 3
  /\ fiberIndex = 303
  /\ Len(torusGroup) = 101
  /\ Len(sphereLinesGroup) = 1

\* the overlay panels of the page shown, all visible / all hidden, and its flash off
PanelsVisible ==
  \A p \in Panels : IF page = "hopf" THEN hopfPanels[p] = "visible" ELSE stereoPanels[p] = "visible"
FlashOff == IF page = "hopf" THEN hopfFlash = "0" ELSE stereoFlash = "0"
TimersPending == IF page = "hopf" THEN hopfTimers ELSE stereoTimers
FrameExported == IF page = "hopf" THEN hopfFrame ELSE stereoFrame

\* C13: in both tools every frame Capture exports shows no overlay panel; whenever no
\* restore timer is pending the panels are visible and the flash opacity is 0; and
\* every Capture is eventually followed by a state with panels visible and flash off.
C13_CaptureRestores ==
  /\ [](FrameExported \in {NoFrame, [p \in Panels |-> "hidden"]})
  /\ [](event.type = "capture" =>
          /\ FrameExported = [p \in Panels |-> "hidden"]
          /\ TimersPending > 0)
  /\ [](TimersPending = 0 => PanelsVisible /\ FlashOff)
  /\ (event.type = "capture") ~> (PanelsVisible /\ FlashOff)

\* reached: the restore of a capture has run and none is pending, with the clean frame
\* exported
C13_Witness ==
  /\ event.type = "timeout"
  /\ TimersPending = 0
  /\ FrameExported = [p \in Panels |-> "hidden"]
  /\ PanelsVisible
  /\ FlashOff

\* C14: in both tools each Capture schedules one more restore and cancels none, and
\* every restore that fires shows the panels and clears the flash whatever else is
\* pending; so the UI can be visible with the flash off while a later capture's
\* restore is still to come.
C14_NoOverlapProtection ==
  [][ /\ event'.type = "capture" =>
            /\ TimersPending' = TimersPending + 1
            /\ ~PanelsVisible' /\ ~FlashOff'
      /\ event'.type = "timeout" =>
            /\ TimersPending' = TimersPending - 1
            /\ PanelsVisible' /\ FlashOff' ]_vars

\* reached: two captures, then the first restore: UI visible, flash off, one restore pending
C14_Witness ==
  /\ event.type = "timeout"
  /\ TimersPending = 1
  /\ PanelsVisible
  /\ FlashOff

\* the last event was a click that the stereographic listener accepted: unfrozen, on the
\* canvas, on the sphere, not within 0.08 of the pole
StereoDrew ==
  /\ page = "stereographic"
  /\ event.type = "click"
  /\ event.target = "canvas"
  /\ event.hit
  /\ ~isFrozen
  /\ ~NearPole(event.point)

\* the samples of the circle through the poles and p, i = 0..128
MeridianSamples(p) ==
  [k \in 1..129 |-> LongitudeSample(CosAngle(p), SinAngle(p), k - 1)]

\* sample sp lies farther than 0.05 from the pole
FartherThanSkip(sp) == DistSq(sp, northPolePos) > 500 * 500

\* C15: after an accepted Longitude click of the stereographic page the sphere-side
\* curve has all 129 samples; the plane-side curve is the projection of exactly the
\* samples farther than 0.05 from the pole, in sample order, so no nearer sample is
\* projected and every plane point is finite; it is drawn only with more than one point.
C15_LongitudeSkipsPole ==
  (StereoDrew /\ toggles["toggleLongitude"]) =>
      LET sphere == projectGroup[1]
          far == SelectSeq(MeridianSamples(event.point), FartherThanSkip)
      IN  /\ Len(projectGroup) \in {1, 2}
          /\ sphere.color = SPHERE_COLOR
          /\ sphere.points = MeridianSamples(event.point)
          /\ Len(sphere.points) = 129
          /\ Len(projectGroup) = 2 <=> Len(far) > 1
          /\ Len(projectGroup) = 2 =>
                /\ projectGroup[2].color = PLANE_COLOR
                /\ Len(projectGroup[2].points) = Len(far)
                /\ \A k \in 1..Len(far) :
                      /\ projectGroup[2].points[k] = projectPoint(far[k])
                      /\ projectGroup[2].points[k].x # NonFinite
                      /\ projectGroup[2].points[k].y = 0

\* reached: a Longitude click on the equator: the meridian passes through the pole, the
\* three samples at and next to the pole are skipped and 126 points are projected
C15_Witness ==
  /\ StereoDrew
  /\ toggles["toggleLongitude"]
  /\ event.point = Vec(Scale, Scale, 0)
  /\ northPolePos \in {projectGroup[1].points[k] : k \in 1..129}
  /\ Len(projectGroup) = 2
  /\ Len(projectGroup[2].points) = 126

\* the kinds of the objects in the projection group, in order
Kinds(group) == [k \in 1..Len(group) |-> group[k].type]

\* C18: after an accepted click of the stereographic page the projection group holds
\* the artifacts of that click alone (Point: one guide line from the pole and two
\* markers, at the clicked point and at its projection; Latitude: two polylines;
\* Longitude: one or two polylines; no mode: nothing) and the warning is hidden.
C18_ClickReplaces ==
  StereoDrew =>
      /\ warning = "none"
      /\ toggles["togglePoint"] =>
            /\ Kinds(projectGroup) = <<"Line", "Mesh", "Mesh">>
            /\ projectGroup[1].points[1] = northPolePos
            /\ projectGroup[2].points = <<event.point>>
            /\ projectGroup[3].points = <<projectPoint(event.point)>>
            /\ projectGroup[1].points[2] = projectGroup[3].points[1]
      /\ toggles["toggleLatitude"] =>
            /\ Kinds(projectGroup) = <<"Line", "Line">>
            /\ \A k \in 1..129 : projectGroup[1].points[k].y = event.point.y
            /\ Len(projectGroup[2].points) = 129
      /\ toggles["toggleLongitude"] =>
            /\ Kinds(projectGroup) \in {<<"Line">>, <<"Line", "Line">>}
            /\ projectGroup[1].points = MeridianSamples(event.point)
      /\ Checked(toggles) = 0 => projectGroup = <<>>

\* reached: a Point click on the contact point after the mode's earlier click elsewhere
\* had been drawn; only the new click's three objects are left
C18_Witness ==
  /\ StereoDrew
  /\ toggles["togglePoint"]
  /\ event.point = Vec(0, 0, 0)
  /\ Len(projectGroup) = 3
  /\ projectGroup[2].points = <<Vec(0, 0, 0)>>

\* C19: on the Hopf page, in every reachable state, each mode flag equals its
\* checkbox: selectionMode = pointToggle.checked, longitudeMode =
\* longitudeToggle.checked, latitudeMode = latitudeToggle.checked.
C19_FlagsAgree ==
  /\ selectionMode = toggleList["pointToggle"]
  /\ longitudeMode = toggleList["longitudeToggle"]
  /\ latitudeMode = toggleList["latitudeToggle"]

\* reached: frozen, with fibers drawn since Reset, the active mode has just been unchecked
C19_Witness ==
  /\ page = "hopf"
  /\ event.type = "change"
  /\ ~toggleList[event.target]
  /\ ~selectionMode /\ ~longitudeMode /\ ~latitudeMode
  /\ holdScene
  /\ drawn # <<>>

\* C20: on the Hopf page, in every reachable state, with no mode active all four
\* groups are empty; markers and Point fibers exist only in Point mode; torus fibers
\* and the guide circle exist only in Longitude or Latitude mode.
C20_ArtifactsOfActiveMode ==
  /\ (~selectionMode /\ ~longitudeMode /\ ~latitudeMode) => HopfGroupsEmpty
  /\ (markersGroup # <<>> \/ fibersGroup # <<>>) => selectionMode
  /\ (torusGroup # <<>> \/ sphereLinesGroup # <<>>) => (longitudeMode \/ latitudeMode)

\* reached: fibers were drawn, the mode was unchecked, and an unfrozen click on the
\* sphere with no mode active has drawn nothing
C20_Witness ==
  /\ page = "hopf"
  /\ event.type = "click"
  /\ event.target = "canvas"
  /\ event.hit
  /\ ~holdScene
  /\ ~selectionMode /\ ~longitudeMode /\ ~latitudeMode
  /\ drawn # <<>>
  /\ HopfGroupsEmpty

\* C16: projectPoint returns every point of the ground plane y = 0 unchanged, so
\* projecting a projection again changes nothing; the contact point (0,0,0) projects
\* to (0,0,0).
C16_GroundPlaneFixed ==
  (call.fn = "projectPoint" /\ call.applied > 0) =>
      /\ call.result.y = 0
      /\ call.arg.y = 0 => call.result = call.arg
      /\ call.applied > 1 => call.result = call.arg
      /\ call.arg = Vec(0, 0, 0) => call.result = Vec(0, 0, 0)

\* reached: the projection (2,0,0) of the equator point (1,1,0) has been projected again
C16_Witness ==
  /\ call.fn = "projectPoint"
  /\ call.applied = 2
  /\ call.arg = Vec(2 * Scale, 0, 0)
  /\ call.result = Vec(2 * Scale, 0, 0)

\* C17: for every unit vector n and every positive segment count,
\* getHopfFiberPoints(n, segments) returns exactly segments + 1 points.
C17_SegmentsPlusOne ==
  (call.fn = "getHopfFiberPoints" /\ call.returned) => call.points = call.segments + 1

\* C21: on the stereographic page a change event that unchecks the checked toggle
\* changes that checkbox alone: the projection group, the warning, the freeze state
\* and the capture state stay as they were.
C21_UncheckKeepsDrawing ==
  [][ (page = "stereographic" /\ event'.type = "change" /\ toggles[event'.target]) =>
         /\ toggles' = [toggles EXCEPT ![event'.target] = FALSE]
         /\ UNCHANGED <<projectGroup, warning, stereoFreeze, stereoCapture>> ]_vars

\* reached: the mode has just been unchecked and its drawing is still in the group
C21_Witness ==
  /\ page = "stereographic"
  /\ event.type = "change"
  /\ Checked(toggles) = 0
  /\ projectGroup # <<>>

====
